---- MODULE Spec2Model ----
(***************************************************************************)
(* RateLimitMiddleware of src/src/middleware.py: a sliding-window request  *)
(* limiter keyed by client address, with a throttled sweep of stale        *)
(* entries.                                                                *)
(*                                                                         *)
(* Time.  time.time() returns a float number of seconds.  The model counts *)
(* time in clock ticks, TicksPerSecond ticks to the second, so that a      *)
(* reading need not be a whole number of seconds and int() truncates.      *)
(* Configuration values (window_seconds, _cleanup_interval) are in         *)
(* seconds and are converted with Sec.                                     *)
(*                                                                         *)
(* Scheduling.  dispatch is a coroutine run by one event loop: the code    *)
(* between two awaits runs without another coroutine interleaving.  Its    *)
(* only await is call_next (line 288; line 247 on the exempt path).  The   *)
(* clock advances at any moment, also between the two clock readings of    *)
(* one request (line 250 and line 223).                                    *)
(***************************************************************************)
EXTENDS Integers, Sequences, FiniteSets, TLC

VARIABLES
    requests_per_minute,  \* self.requests_per_minute           (line 196)
    window_seconds,       \* self.window_seconds                (line 197)
    client_requests,      \* self._client_requests: key -> deque (line 199)
    last_cleanup,         \* self._last_cleanup, in ticks       (line 201)
    clock,                \* the value time.time() returns now, in ticks
    instants,             \* the clock readings the environment can produce
    quota,                \* the number of non-exempt requests the environment sends
    paths,                \* the paths the environment requests
    origins,              \* the kind of headers and peer addresses the environment sends
    req,                  \* one record per request slot: the coroutine's locals
    hist,                 \* history: per client, one record per non-exempt request
    sweeps,               \* history: the clock readings at which a sweep scanned
    solo,                 \* per client, the limiter as it would be had only that
                          \* client sent its requests (same clock readings)
    replicas,             \* the limiters of the other processes of the service
    documents,            \* the ids of the rows of the documents table
    delete_req,           \* one record per call of delete_document: its locals
    authors,              \* the ids of the rows of the authors table
    author_seq,           \* the last id the authors table has handed out
    books,                \* the books table: book id -> author_id
    catalog_req,          \* one record per call of add_book or delete_author
    request_count,        \* MetricsStore._request_count
    error_count,          \* MetricsStore._error_count
    response_times,       \* MetricsStore._response_times
    metrics_req,          \* one record per call of MetricsMiddleware.dispatch
    entered,              \* history: the calls of MetricsMiddleware.dispatch so far
    raised,               \* history: the calls of it whose call_next raised
    last_check,           \* DatabaseHealthCheck.last_check, in ticks
    is_healthy,           \* DatabaseHealthCheck.is_healthy
    health_req,           \* one record per call of check_health: its locals
    jobs,                 \* the ingestion_jobs table: row i has id i
    tasks,                \* per job id, where its process_ingestion_job task is
    ingestion_req         \* one record per request to the ingestion router

\* The state of RateLimitMiddleware, with the environment and history of its model
limiter_state ==
    <<requests_per_minute, window_seconds, client_requests, last_cleanup,
      clock, instants, quota, paths, origins, req, hist, sweeps, solo, replicas>>

\* The state of the documents routes
documents_state == <<documents, delete_req>>

\* The state of the author and book routes
catalog_state == <<authors, author_seq, books, catalog_req>>

\* The state of the metrics store and middleware
metrics_state ==
    <<request_count, error_count, response_times, metrics_req, entered, raised>>

\* The state of the database health check
health_state == <<last_check, is_healthy, health_req>>

\* The state of the ingestion router
ingestion_state == <<jobs, tasks, ingestion_req>>

\* The state of the application behind the limiter
app_state ==
    <<documents_state, catalog_state, metrics_state, health_state, ingestion_state>>

vars == <<requests_per_minute, window_seconds, client_requests, last_cleanup,
          clock, instants, quota, paths, origins, req, hist, sweeps, solo,
          replicas, documents, delete_req, authors, author_seq, books,
          catalog_req, request_count, error_count, response_times, metrics_req,
          entered, raised, last_check, is_healthy, health_req, jobs, tasks,
          ingestion_req>>

-----------------------------------------------------------------------------
(* Bounds of the model *)

TicksPerSecond == 2
MaxSkew == 2           \* ticks that pass between line 250 and line 223
MaxInFlight == 2       \* request slots (coroutines alive at once)
MaxRequests == 3       \* non-exempt requests per behaviour
MaxHeaderLen == 3      \* characters in a header value
ReplicaCount == 2      \* processes of the service, each with its own limiter

-----------------------------------------------------------------------------
(* Program constants *)

cleanup_interval == 300
HTTP_429_TOO_MANY_REQUESTS == 429

\* Faulty variant of ExemptPaths: one path missing from the list
ExemptPaths_NoMetrics == {"/health", "/health/detailed"}

ExemptPaths == {"/health", "/health/detailed", "/metrics"}

\* A str is a sequence of characters.  An address without comma or blank counts as
\* one character, "" is the empty sequence.
Comma == ","
Blank == " "
Chars == {Comma, Blank, "9.9.9.9"}

\* An optional value: None, or a value that is there
None == [present |-> FALSE, value |-> <<>>]
Some(v) == [present |-> TRUE, value |-> v]

\* Python's truth of an optional str: neither None nor ""
Truthy(o) == o.present /\ o.value # <<>>

\* v.split(",")[0]
FirstEntry(v) ==
    IF \E i \in DOMAIN v : v[i] = Comma
    THEN SubSeq(v, 1, (CHOOSE i \in DOMAIN v :
                          v[i] = Comma /\ \A j \in 1..(i - 1) : v[j] # Comma) - 1)
    ELSE v

RECURSIVE LStrip(_)
LStrip(v) == IF v # <<>> /\ Head(v) = Blank THEN LStrip(Tail(v)) ELSE v

RECURSIVE RStrip(_)
RStrip(v) ==
    IF v # <<>> /\ v[Len(v)] = Blank THEN RStrip(SubSeq(v, 1, Len(v) - 1)) ELSE v

\* v.strip()
Strip(v) == RStrip(LStrip(v))

Unknown == <<"unknown">>

\* Faulty variant of get_client_ip: X-Real-IP is looked at first
get_client_ip_RealFirst(h) ==
    IF Truthy(h.real_ip) THEN h.real_ip.value
    ELSE IF Truthy(h.forwarded_for) THEN Strip(FirstEntry(h.forwarded_for.value))
    ELSE IF h.client.present THEN h.client.value
    ELSE Unknown

\* _get_client_ip: h.forwarded_for and h.real_ip are the values of
\* request.headers.get, h.client is request.client (its host when there)
get_client_ip(h) ==
    IF Truthy(h.forwarded_for) THEN Strip(FirstEntry(h.forwarded_for.value))
    ELSE IF Truthy(h.real_ip) THEN h.real_ip.value
    ELSE IF h.client.present THEN h.client.value
    ELSE Unknown

\* A request that carries no header and has no peer address
NoRequest == [forwarded_for |-> None, real_ip |-> None, client |-> None]

\* A direct connection from the given peer address
Direct(host) == [NoRequest EXCEPT !.client = Some(host)]

Clients == {<<"1.2.3.4">>, <<"5.6.7.8">>}

\* Requests of the two clients, each connecting directly
DefaultOrigins == {Direct(c) : c \in Clients}

\* Header values of up to MaxHeaderLen characters
HeaderValues == UNION {[1..n -> Chars] : n \in 0..MaxHeaderLen}

\* Every combination of X-Forwarded-For, X-Real-IP and peer address
HeaderOrigins ==
    {[forwarded_for |-> x, real_ip |-> r, client |-> k] :
        x \in {None} \cup {Some(v) : v \in HeaderValues},
        r \in {None, Some(<<>>), Some(<<"5.6.7.8">>)},
        k \in {None, Some(<<"1.2.3.4">>)}}

\* The requests the environment sends, by kind: "direct" connections of the two
\* clients, or every combination of "headers"
OriginsOf(kind) == IF kind = "headers" THEN HeaderOrigins ELSE DefaultOrigins

\* The keys under which requests from the origins O are accounted
KeysOf(O) == {get_client_ip(h) : h \in O}
Limits == {1, 2}       \* values of requests_per_minute
Slots == 1..MaxInFlight

\* The processes other than the one whose coroutines the slots are
OtherReplicas == 2..ReplicaCount

Sec(s) == s * TicksPerSecond

\* int(x) of a non-negative float: the whole seconds in x ticks
IntPart(x) == x \div TicksPerSecond

Max(a, b) == IF a >= b THEN a ELSE b

-----------------------------------------------------------------------------
(* Pure helpers *)

\* Faulty variant of PopStale: the timestamp equal to the cutoff is purged too
RECURSIVE PopStale_Exclusive(_, _)
PopStale_Exclusive(q, cutoff) ==
    IF q # <<>> /\ Head(q) <= cutoff THEN PopStale_Exclusive(Tail(q), cutoff) ELSE q

\* Faulty variant of PopStale: "if" for "while", at most one timestamp is purged
PopStale_Once(q, cutoff) ==
    IF q # <<>> /\ Head(q) < cutoff THEN Tail(q) ELSE q

\* while q and q[0] < cutoff: q.popleft()
RECURSIVE PopStale(_, _)
PopStale(q, cutoff) ==
    IF q # <<>> /\ Head(q) < cutoff THEN PopStale(Tail(q), cutoff) ELSE q

\* Faulty variant of SweepDue: the interval is compared in the wrong unit
SweepDue_WrongUnit(now, last) == ~(now - last < cleanup_interval)

\* The sweep condition of _cleanup_old_entries: FALSE is the early return
SweepDue(now, last) == ~(now - last < Sec(cleanup_interval))

\* Faulty variant of Swept: emptied deques are not deleted
Swept_KeepEmpty(cr, now, W) ==
    [k \in DOMAIN cr |-> PopStale(cr[k], now - Sec(W))]

\* Faulty variant of Swept: a key is deleted when its oldest timestamp is stale
Swept_StaleHead(cr, now, W) ==
    LET keep == {k \in DOMAIN cr : cr[k] # <<>> /\ Head(cr[k]) >= now - Sec(W)}
    IN  [k \in keep |-> cr[k]]

\* The scan of _cleanup_old_entries: purge every deque, delete the empty ones
Swept(cr, now, W) ==
    LET cutoff == now - Sec(W)
        purged == [k \in DOMAIN cr |-> PopStale(cr[k], cutoff)]
        keep   == {k \in DOMAIN cr : purged[k] # <<>>}
    IN  [k \in keep |-> purged[k]]

\* self._client_requests[client_ip] on a defaultdict: creates the entry
GetOrCreate(cr, c) ==
    IF c \in DOMAIN cr THEN cr
    ELSE [k \in DOMAIN cr \cup {c} |-> IF k = c THEN <<>> ELSE cr[k]]

\* Faulty variant of LimitExceeded: the comparison off by one
LimitExceeded_OffByOne(q, N) == Len(q) > N

\* len(client_queue) >= self.requests_per_minute
LimitExceeded(q, N) == Len(q) >= N

\* Faulty variant of Proceeds: the return of line 269 is missing
Proceeds_Always(q, N) == TRUE

\* Whether dispatch goes on to line 285 and call_next (the test of line 264)
Proceeds(q, N) == ~LimitExceeded(q, N)

\* Faulty variant of Recorded: appendleft for append
Recorded_Front(q, now, N) == IF LimitExceeded(q, N) THEN q ELSE <<now>> \o q

\* Faulty variant of Recorded: the timestamp is appended before the check
Recorded_Always(q, now, N) == Append(q, now)

\* The purged deque after lines 263-285: now is appended unless the limit is exceeded
Recorded(q, now, N) == IF LimitExceeded(q, N) THEN q ELSE Append(q, now)

\* len(client_queue) as a coroutine holding a reference to the deque sees it.
\* The sweep deletes only deques it has emptied, and nothing appends to a deleted
\* deque, so a reference to a deleted deque sees length 0.
QueueLen(cr, c, detached) ==
    IF detached \/ c \notin DOMAIN cr THEN 0 ELSE Len(cr[c])

NoResponse == [status |-> 0, retry_after |-> -1, limit |-> -1, remaining |-> -1,
               reset |-> -1]

\* A request slot with no coroutine in it
IdleSlot == [pc |-> "idle", request |-> NoRequest, client_ip |-> <<>>, path |-> "",
             current_time |-> 0,
             swept |-> FALSE, detached |-> FALSE, limited |-> FALSE, count |-> 0,
             calls |-> 0, resp |-> NoResponse, solo_detached |-> FALSE, solo_remaining |-> -1]

\* Faulty variant of RejectResponse: X-RateLimit-Reset without int()
RejectResponse_NoInt(q, now, N, W) ==
    [status      |-> HTTP_429_TOO_MANY_REQUESTS,
     retry_after |-> W,
     limit       |-> N,
     remaining   |-> Max(0, N - Len(q)),
     reset       |-> now + Sec(W)]

\* The JSONResponse of lines 269-282
RejectResponse(q, now, N, W) ==
    [status      |-> HTTP_429_TOO_MANY_REQUESTS,
     retry_after |-> W,
     limit       |-> N,
     remaining   |-> Max(0, N - Len(q)),
     reset       |-> IntPart(now + Sec(W))]

\* The handler's response with the headers of lines 291-294
AdmitResponse(len, now, N, W) ==
    [status      |-> 200,
     retry_after |-> -1,
     limit       |-> N,
     remaining   |-> Max(0, N - len),
     reset       |-> IntPart(now + Sec(W))]

\* The handler's response as it passes line 247 untouched
PassResponse == [NoResponse EXCEPT !.status = 200]

\* What the caller of dispatch gets when call_next raises: no response of this
\* middleware; the server's error handler answers 500
ErrorResponse == [NoResponse EXCEPT !.status = 500]

\* No coroutine is between two awaits
LoopFree == \A s \in Slots : req[s].pc \in {"idle", "call_next"}

TotalRequests == LET RECURSIVE Sum(_)
                     Sum(S) == IF S = {} THEN 0
                               ELSE LET c == CHOOSE x \in S : TRUE
                                    IN  Len(hist[c]) + Sum(S \ {c})
                 IN  Sum(DOMAIN hist)

\* The number of calls of dispatch in the other processes so far
ReplicaRequests ==
    LET RECURSIVE Sum(_, _)
        Sum(r, S) == IF S = {} THEN 0
                     ELSE LET c == CHOOSE x \in S : TRUE
                          IN  Len(replicas[r].hist[c]) + Sum(r, S \ {c})
        RECURSIVE All(_)
        All(R) == IF R = {} THEN 0
                  ELSE LET r == CHOOSE x \in R : TRUE
                       IN  Sum(r, DOMAIN replicas[r].hist) + All(R \ {r})
    IN  All(OtherReplicas)

\* A limiter right after __init__ at clock reading 0, with its history
FreshReplica(O) ==
    [client_requests |-> <<>>, last_cleanup |-> 0, read |-> 0,
     hist |-> [c \in KeysOf(O) |-> <<>>]]

-----------------------------------------------------------------------------
(* The documents routes: src/src/routes/documents.py with the dependency       *)
(* verify_user of src/src/auth.py.  Each await of a handler ends a step.       *)

MaxDocuments == 2      \* rows the documents table holds at most

HTTP_204_NO_CONTENT == 204
HTTP_401_UNAUTHORIZED == 401
HTTP_404_NOT_FOUND == 404
HTTP_500_INTERNAL_SERVER_ERROR == 500

\* A request without an Authorization header
NoAuthorization == [present |-> FALSE, scheme |-> "", credentials |-> ""]

\* The header "Authorization: <scheme> <credentials>"
Authorization(scheme, credentials) ==
    [present |-> TRUE, scheme |-> scheme, credentials |-> credentials]

\* Tokens: one that decodes to a payload with "sub", one that jwt.decode refuses,
\* one that decodes to a payload without "sub"
Tokens == {"good", "expired", "nosub"}

\* The Authorization headers the environment sends
Authorizations ==
    {NoAuthorization, Authorization("Basic", "good")}
        \cup {Authorization("Bearer", t) : t \in Tokens}

\* security = HTTPBearer(auto_error=False): the credentials of a Bearer header,
\* None for a missing header or another scheme (present = FALSE)
security(h) ==
    IF h.present /\ h.scheme # "" /\ h.credentials # "" /\ h.scheme = "Bearer"
    THEN h
    ELSE NoAuthorization

\* decode_access_token: the payload, None when jwt.decode raises JWTError
decode_access_token(token) ==
    IF token = "good" THEN [present |-> TRUE, sub |-> "admin"]
    ELSE IF token = "nosub" THEN [present |-> TRUE, sub |-> ""]
    ELSE [present |-> FALSE, sub |-> ""]

\* What a call ends in: a returned value, an HTTPException, another exception
Returned(v) == [kind |-> "return", status |-> 0, value |-> v]
HTTPException(status) == [kind |-> "http", status |-> status, value |-> ""]
Raised(e) == [kind |-> "raise", status |-> 0, value |-> e]

\* verify_user: credentials.credentials on None raises AttributeError
verify_user(credentials) ==
    IF ~credentials.present THEN Raised("AttributeError")
    ELSE LET payload == decode_access_token(credentials.credentials)
         IN  IF ~payload.present THEN HTTPException(HTTP_401_UNAUTHORIZED)
             ELSE IF payload.sub = "" THEN HTTPException(HTTP_401_UNAUTHORIZED)
             ELSE Returned(payload.sub)

\* The status the client gets for an exception that leaves a route: FastAPI answers
\* an HTTPException with its status code, error_handler answers any other with 500
error_status(outcome) ==
    IF outcome.kind = "http" THEN outcome.status ELSE HTTP_500_INTERNAL_SERVER_ERROR

DocumentIds == 1..MaxDocuments

\* A slot with no call of delete_document in it
IdleDelete == [pc |-> "idle", authorization |-> NoAuthorization, document_id |-> 0,
               status |-> 0]

\* The documents table is empty and no request is running
DocumentsStarted ==
    /\ documents = {}
    /\ delete_req = [s \in Slots |-> IdleDelete]

\* upload_document, lines 14-53: a row is added with the next id
upload_document ==
    /\ LET id == IF documents = {} THEN 1
                 ELSE (CHOOSE x \in documents : \A y \in documents : y <= x) + 1
       IN  /\ id \in DocumentIds
           /\ documents' = documents \cup {id}
    /\ UNCHANGED <<delete_req, limiter_state, catalog_state, metrics_state,
                   health_state, ingestion_state>>

\* DELETE /documents/{document_id} arrives with Authorization header h
DeleteArrives(s, h, d) ==
    /\ delete_req[s].pc = "idle"
    /\ \A r \in Slots : r < s => delete_req[r].pc # "idle"
    /\ delete_req' = [delete_req EXCEPT ![s] =
          [IdleDelete EXCEPT !.pc = "depends", !.authorization = h, !.document_id = d]]
    /\ UNCHANGED <<documents, limiter_state, catalog_state, metrics_state,
                   health_state, ingestion_state>>

\* The dependencies of line 127 are solved: security, then verify_user.  An
\* exception ends the request before delete_document is called.
DeleteDepends(s) ==
    /\ delete_req[s].pc = "depends"
    /\ LET outcome == verify_user(security(delete_req[s].authorization))
       IN  delete_req' = [delete_req EXCEPT ![s] =
              IF outcome.kind = "return"
              THEN [@ EXCEPT !.pc = "select"]
              ELSE [@ EXCEPT !.pc = "done", !.status = error_status(outcome)]]
    /\ UNCHANGED <<documents, limiter_state, catalog_state, metrics_state,
                   health_state, ingestion_state>>

\* delete_document, lines 129-132: the row is looked up
DeleteSelect(s) ==
    /\ delete_req[s].pc = "select"
    /\ delete_req' = [delete_req EXCEPT ![s] =
          IF delete_req[s].document_id \in documents
          THEN [@ EXCEPT !.pc = "delete"]
          ELSE [@ EXCEPT !.pc = "done", !.status = HTTP_404_NOT_FOUND]]
    /\ UNCHANGED <<documents, limiter_state, catalog_state, metrics_state,
                   health_state, ingestion_state>>

\* delete_document, lines 133-134: the row is deleted and the session committed
DeleteCommit(s) ==
    /\ delete_req[s].pc = "delete"
    /\ IF \E j \in DOMAIN jobs : jobs[j].document_id = delete_req[s].document_id
       THEN \* ForeignKey("documents.id") of IngestionJob: the DELETE is refused
            /\ documents' = documents
            /\ delete_req' = [delete_req EXCEPT ![s].pc = "done",
                                  ![s].status = HTTP_500_INTERNAL_SERVER_ERROR]
       ELSE /\ documents' = documents \ {delete_req[s].document_id}
            /\ delete_req' = [delete_req EXCEPT ![s].pc = "done",
                                                ![s].status = HTTP_204_NO_CONTENT]
    /\ UNCHANGED <<limiter_state, catalog_state, metrics_state,
                   health_state, ingestion_state>>

\* The response is sent
DeleteAnswered(s) ==
    /\ delete_req[s].pc = "done"
    /\ delete_req' = [delete_req EXCEPT ![s] = IdleDelete]
    /\ UNCHANGED <<documents, limiter_state, catalog_state, metrics_state,
                   health_state, ingestion_state>>

NextDocuments ==
    \/ upload_document
    \/ \E s \in Slots, h \in Authorizations, d \in DocumentIds : DeleteArrives(s, h, d)
    \/ \E s \in Slots : DeleteDepends(s)
    \/ \E s \in Slots : DeleteSelect(s)
    \/ \E s \in Slots : DeleteCommit(s)
    \/ \E s \in Slots : DeleteAnswered(s)

-----------------------------------------------------------------------------
(* The author and book routes of src/src/main.py over the tables of            *)
(* src/src/models.py.  Every request has a session of its own; each await of a *)
(* handler ends a step.  The database enforces the constraints the models      *)
(* declare: books.author_id is a foreign key to authors.id and not null.       *)

MaxAuthors == 2        \* authors created per behaviour
MaxBooks == 2          \* books created per behaviour

HTTP_200_OK == 200
HTTP_400_BAD_REQUEST == 400
HTTP_409_CONFLICT == 409

AuthorIds == 1..MaxAuthors

\* The ids of the books of author a
BooksOf(a) == {b \in DOMAIN books : books[b] = a}

\* ForeignKey("authors.id") of Book.author_id: an insert of a book of author a
\* is accepted
ForeignKeyAllowsInsert(a) == a \in authors

\* ForeignKey("authors.id") of Book.author_id: a delete of author a is accepted
ForeignKeyAllowsDelete(a) == BooksOf(a) = {}

\* A slot with no call of add_book or delete_author in it
IdleCatalog == [pc |-> "idle", op |-> "", author_id |-> 0, status |-> 0]

\* Both tables are empty and no request is running
CatalogStarted ==
    /\ authors = {}
    /\ author_seq = 0
    /\ books = <<>>
    /\ catalog_req = [s \in Slots |-> IdleCatalog]

\* The calls of add_book that are running
PendingBooks == Cardinality({s \in Slots : catalog_req[s].op = "add_book"})

\* create_author, lines 142-165: a row is added with the next id of the sequence
create_author ==
    /\ author_seq < MaxAuthors
    /\ author_seq' = author_seq + 1
    /\ authors' = authors \cup {author_seq + 1}
    /\ UNCHANGED <<books, catalog_req, limiter_state, documents_state, metrics_state,
                   health_state, ingestion_state>>

\* A request for add_book or delete_author arrives, naming author a
CatalogArrives(s, op, a) ==
    /\ catalog_req[s].pc = "idle"
    /\ \A r \in Slots : r < s => catalog_req[r].pc # "idle"
    /\ op = "add_book" => Len(books) + PendingBooks < MaxBooks
    /\ catalog_req' = [catalog_req EXCEPT ![s] =
          [IdleCatalog EXCEPT !.pc = "select_author", !.op = op, !.author_id = a]]
    /\ UNCHANGED <<authors, author_seq, books, limiter_state, documents_state, metrics_state,
                   health_state, ingestion_state>>

\* add_book, lines 369-371: the author is looked up
AddBookSelectAuthor(s) ==
    /\ catalog_req[s].pc = "select_author" /\ catalog_req[s].op = "add_book"
    /\ catalog_req' = [catalog_req EXCEPT ![s] =
          IF catalog_req[s].author_id \in authors
          THEN [@ EXCEPT !.pc = "select_genre"]
          ELSE [@ EXCEPT !.pc = "done", !.status = HTTP_400_BAD_REQUEST]]
    /\ UNCHANGED <<authors, author_seq, books, limiter_state, documents_state, metrics_state,
                   health_state, ingestion_state>>

\* add_book, lines 373-375: the genre is looked up; the genre of the request exists
AddBookSelectGenre(s) ==
    /\ catalog_req[s].pc = "select_genre"
    /\ catalog_req' = [catalog_req EXCEPT ![s].pc = "commit"]
    /\ UNCHANGED <<authors, author_seq, books, limiter_state, documents_state, metrics_state,
                   health_state, ingestion_state>>

\* add_book, lines 377-380 and 397-400: the commit inserts the row unless the
\* foreign key refuses it, which the handler answers 500
AddBookCommit(s) ==
    /\ catalog_req[s].pc = "commit" /\ catalog_req[s].op = "add_book"
    /\ IF ForeignKeyAllowsInsert(catalog_req[s].author_id)
       THEN /\ books' = Append(books, catalog_req[s].author_id)
            /\ catalog_req' = [catalog_req EXCEPT ![s].pc = "done",
                                                  ![s].status = HTTP_200_OK]
       ELSE /\ books' = books
            /\ catalog_req' = [catalog_req EXCEPT
                                  ![s].pc = "done",
                                  ![s].status = HTTP_500_INTERNAL_SERVER_ERROR]
    /\ UNCHANGED <<authors, author_seq, limiter_state, documents_state, metrics_state,
                   health_state, ingestion_state>>

\* delete_author, lines 209-212: the author is looked up
DeleteAuthorSelectAuthor(s) ==
    /\ catalog_req[s].pc = "select_author" /\ catalog_req[s].op = "delete_author"
    /\ catalog_req' = [catalog_req EXCEPT ![s] =
          IF catalog_req[s].author_id \in authors
          THEN [@ EXCEPT !.pc = "select_books"]
          ELSE [@ EXCEPT !.pc = "done", !.status = HTTP_404_NOT_FOUND]]
    /\ UNCHANGED <<authors, author_seq, books, limiter_state, documents_state, metrics_state,
                   health_state, ingestion_state>>

\* delete_author, lines 215-217 and 226-229: the author's books are looked up.
\* scalar_one_or_none returns None for no row and the row for one, and raises
\* MultipleResultsFound for more, which the handler answers as DatabaseError.
DeleteAuthorSelectBooks(s) ==
    /\ catalog_req[s].pc = "select_books"
    /\ LET n == Cardinality(BooksOf(catalog_req[s].author_id))
       IN  catalog_req' = [catalog_req EXCEPT ![s] =
              IF n = 0 THEN [@ EXCEPT !.pc = "commit"]
              ELSE IF n = 1 THEN [@ EXCEPT !.pc = "done", !.status = HTTP_409_CONFLICT]
              ELSE [@ EXCEPT !.pc = "done",
                             !.status = HTTP_500_INTERNAL_SERVER_ERROR]]
    /\ UNCHANGED <<authors, author_seq, books, limiter_state, documents_state, metrics_state,
                   health_state, ingestion_state>>

\* delete_author, lines 219-220 and 226-229: the commit deletes the row unless a
\* book refers to it, which the handler answers as DatabaseError.  (A book found
\* by db.delete at line 219 is still there at the commit: nothing deletes books.)
DeleteAuthorCommit(s) ==
    /\ catalog_req[s].pc = "commit" /\ catalog_req[s].op = "delete_author"
    /\ IF ForeignKeyAllowsDelete(catalog_req[s].author_id)
       THEN /\ authors' = authors \ {catalog_req[s].author_id}
            /\ catalog_req' = [catalog_req EXCEPT ![s].pc = "done",
                                                  ![s].status = HTTP_204_NO_CONTENT]
       ELSE /\ authors' = authors
            /\ catalog_req' = [catalog_req EXCEPT
                                  ![s].pc = "done",
                                  ![s].status = HTTP_500_INTERNAL_SERVER_ERROR]
    /\ UNCHANGED <<author_seq, books, limiter_state, documents_state, metrics_state,
                   health_state, ingestion_state>>

\* The response is sent
CatalogAnswered(s) ==
    /\ catalog_req[s].pc = "done"
    /\ catalog_req' = [catalog_req EXCEPT ![s] = IdleCatalog]
    /\ UNCHANGED <<authors, author_seq, books, limiter_state, documents_state, metrics_state,
                   health_state, ingestion_state>>

NextCatalog ==
    \/ create_author
    \/ \E s \in Slots, op \in {"add_book", "delete_author"}, a \in AuthorIds :
          CatalogArrives(s, op, a)
    \/ \E s \in Slots : AddBookSelectAuthor(s)
    \/ \E s \in Slots : AddBookSelectGenre(s)
    \/ \E s \in Slots : AddBookCommit(s)
    \/ \E s \in Slots : DeleteAuthorSelectAuthor(s)
    \/ \E s \in Slots : DeleteAuthorSelectBooks(s)
    \/ \E s \in Slots : DeleteAuthorCommit(s)
    \/ \E s \in Slots : CatalogAnswered(s)

-----------------------------------------------------------------------------
(* MetricsMiddleware and MetricsStore of src/src/middleware.py.  The methods   *)
(* of the store take an asyncio.Lock around a statement that does not await:   *)
(* the lock is free whenever a coroutine is scheduled, acquire does not        *)
(* suspend, and each method runs within the step that calls it.                *)

MaxMeasured == 4       \* calls of MetricsMiddleware.dispatch per behaviour

maxlen == 1000

\* Durations measured, in ticks
Durations == {0, 1}

\* Faulty variant of DequeAppend: the deque has no maxlen
DequeAppend_Unbounded(q, x) == Append(q, x)

\* deque(maxlen=1000).append: a full deque drops its oldest entry
DequeAppend(q, x) ==
    IF Len(q) >= maxlen THEN Append(Tail(q), x) ELSE Append(q, x)

\* A slot with no call of MetricsMiddleware.dispatch in it
IdleMeasured == [pc |-> "idle"]

\* MetricsStore.__init__, and no request running
MetricsStarted ==
    /\ request_count = 0
    /\ error_count = 0
    /\ response_times = <<>>
    /\ metrics_req = [s \in Slots |-> IdleMeasured]
    /\ entered = 0
    /\ raised = 0

\* The store after maxlen - 1 requests, all answered by the handler in no time
MetricsWarm ==
    /\ request_count = maxlen - 1
    /\ error_count = 0
    /\ response_times = [i \in 1..(maxlen - 1) |-> 0]
    /\ metrics_req = [s \in Slots |-> IdleMeasured]
    /\ entered = maxlen - 1
    /\ raised = 0

\* The calls of dispatch since the initial state (MetricsStarted or MetricsWarm)
Measured == IF entered >= maxlen - 1 THEN entered - (maxlen - 1) ELSE entered

\* dispatch, lines 117-122: increment_request, then call_next is awaited
MetricsDispatch(s) ==
    /\ metrics_req[s].pc = "idle"
    /\ \A r \in Slots : r < s => metrics_req[r].pc # "idle"
    /\ Measured < MaxMeasured
    /\ entered' = entered + 1
    /\ request_count' = request_count + 1
    /\ metrics_req' = [metrics_req EXCEPT ![s].pc = "call_next"]
    /\ UNCHANGED <<error_count, response_times, raised, limiter_state,
                   documents_state, catalog_state, health_state, ingestion_state>>

\* dispatch, lines 122-131: call_next returns, add_response_time
MetricsReturn(s, d) ==
    /\ metrics_req[s].pc = "call_next"
    /\ response_times' = DequeAppend(response_times, d)
    /\ metrics_req' = [metrics_req EXCEPT ![s].pc = "idle"]
    /\ UNCHANGED <<request_count, error_count, entered, raised, limiter_state,
                   documents_state, catalog_state, health_state, ingestion_state>>

\* dispatch, lines 133-135: call_next raises, increment_error
MetricsRaise(s) ==
    /\ metrics_req[s].pc = "call_next"
    /\ raised' = raised + 1
    /\ error_count' = error_count + 1
    /\ metrics_req' = [metrics_req EXCEPT ![s].pc = "idle"]
    /\ UNCHANGED <<request_count, response_times, entered, limiter_state,
                   documents_state, catalog_state, health_state, ingestion_state>>

NextMetrics ==
    \/ \E s \in Slots : MetricsDispatch(s)
    \/ \E s \in Slots, d \in Durations : MetricsReturn(s, d)
    \/ \E s \in Slots : MetricsRaise(s)

-----------------------------------------------------------------------------
(* DatabaseHealthCheck of src/app/database.py.  check_health suspends while    *)
(* the probe runs (lines 51-53), so calls overlap.  Clock readings are the     *)
(* limiter's: ticks since the application started, long after the epoch.       *)

check_interval == 30

\* A slot with no call of check_health in it
IdleHealth == [pc |-> "idle", current_time |-> 0, probed |-> FALSE, result |-> TRUE]

\* Reading 0 of time.time() on the model's clock, whose reading 0 is the start of
\* the application: further back than check_interval
epoch == -Sec(check_interval)

\* DatabaseHealthCheck.__init__ (last_check = 0), and no call running
HealthStarted ==
    /\ last_check = epoch
    /\ is_healthy = TRUE
    /\ health_req = [s \in Slots |-> IdleHealth]

\* Line 47: the test that skips the probe
RecentlyChecked(now, last) == now - last < Sec(check_interval)

\* check_health, lines 44-51: the clock is read; the cached value is returned, or
\* the probe begins
HealthCall(s) ==
    /\ health_req[s].pc = "idle"
    /\ \A r \in Slots : r < s => health_req[r].pc # "idle"
    /\ health_req' = [health_req EXCEPT ![s] =
          IF RecentlyChecked(clock, last_check)
          THEN [pc |-> "done", current_time |-> clock, probed |-> FALSE,
                result |-> is_healthy]
          ELSE [pc |-> "probe", current_time |-> clock, probed |-> TRUE,
                result |-> TRUE]]
    /\ UNCHANGED <<last_check, is_healthy, limiter_state, documents_state,
                   catalog_state, metrics_state, ingestion_state>>

\* check_health, lines 53-64: the probe succeeds
ProbeSucceeds(s) ==
    /\ health_req[s].pc = "probe"
    /\ is_healthy' = TRUE
    /\ last_check' = health_req[s].current_time
    /\ health_req' = [health_req EXCEPT ![s].pc = "done", ![s].result = TRUE]
    /\ UNCHANGED <<limiter_state, documents_state, catalog_state, metrics_state, ingestion_state>>

\* check_health, lines 66-69: the probe raises
ProbeFails(s) ==
    /\ health_req[s].pc = "probe"
    /\ is_healthy' = FALSE
    /\ health_req' = [health_req EXCEPT ![s].pc = "done", ![s].result = FALSE]
    /\ UNCHANGED <<last_check, limiter_state, documents_state, catalog_state,
                   metrics_state, ingestion_state>>

\* check_health has returned
HealthReturned(s) ==
    /\ health_req[s].pc = "done"
    /\ health_req' = [health_req EXCEPT ![s] = IdleHealth]
    /\ UNCHANGED <<last_check, is_healthy, limiter_state, documents_state,
                   catalog_state, metrics_state, ingestion_state>>

-----------------------------------------------------------------------------
(* The ingestion router of src/app/routes/ingestion.py.  Each handler is split *)
(* at its awaits; process_ingestion_job runs as a task of its own.             *)

MaxJobs == 2           \* rows the ingestion_jobs table holds at most

JobIds == 1..MaxJobs

\* timedelta(minutes=5) of complete_stuck_jobs, in seconds
StuckAfter == 5 * 60

\* A slot with no request to the ingestion router in it
IdleIngestion == [pc |-> "idle", document_id |-> 0, job_id |-> 0, cutoff_time |-> 0,
                  stuck_jobs |-> {}, status |-> 0]

\* The ingestion_jobs table is empty, no task exists and no request is running
IngestionStarted ==
    /\ jobs = <<>>
    /\ tasks = [j \in JobIds |-> "none"]
    /\ ingestion_req = [s \in Slots |-> IdleIngestion]

\* Rows that running requests are still to insert
PendingJobs == Cardinality({s \in Slots : ingestion_req[s].pc \in {"select", "commit"}})

\* POST /ingestion/trigger/{document_id} arrives
TriggerArrives(s, d) ==
    /\ ingestion_req[s].pc = "idle"
    /\ Len(jobs) + PendingJobs < MaxJobs
    /\ ingestion_req' = [ingestion_req EXCEPT ![s].pc = "select", ![s].document_id = d]
    /\ UNCHANGED <<jobs, tasks, limiter_state, documents_state, catalog_state,
                   metrics_state, health_state>>

\* trigger_ingestion, lines 15-18: the document is looked up
TriggerSelect(s) ==
    /\ ingestion_req[s].pc = "select"
    /\ ingestion_req' = [ingestion_req EXCEPT
          ![s].pc = IF ingestion_req[s].document_id \in documents
                    THEN "commit" ELSE "done",
          ![s].status = IF ingestion_req[s].document_id \in documents
                        THEN 0 ELSE HTTP_404_NOT_FOUND]
    /\ UNCHANGED <<jobs, tasks, limiter_state, documents_state, catalog_state,
                   metrics_state, health_state>>

\* trigger_ingestion, lines 21-23: the job is inserted with status "running";
\* created_at is the server's now()
TriggerCommit(s) ==
    /\ ingestion_req[s].pc = "commit"
    /\ IF ingestion_req[s].document_id \in documents
       THEN /\ jobs' = Append(jobs, [document_id |-> ingestion_req[s].document_id,
                                     status |-> "running", created_at |-> clock])
            /\ ingestion_req' = [ingestion_req EXCEPT ![s].pc = "refresh",
                                                      ![s].job_id = Len(jobs) + 1]
       ELSE \* ForeignKey("documents.id"): the INSERT is refused
            /\ jobs' = jobs
            /\ ingestion_req' = [ingestion_req EXCEPT
                  ![s].pc = "done", ![s].status = HTTP_500_INTERNAL_SERVER_ERROR]
    /\ UNCHANGED <<tasks, limiter_state, documents_state, catalog_state,
                   metrics_state, health_state>>

\* trigger_ingestion, lines 24-29: after the refresh the task is created and the
\* handler returns
TriggerCreateTask(s) ==
    /\ ingestion_req[s].pc = "refresh"
    /\ tasks' = [tasks EXCEPT ![ingestion_req[s].job_id] = "sleep"]
    /\ ingestion_req' = [ingestion_req EXCEPT ![s].pc = "done", ![s].status = HTTP_200_OK]
    /\ UNCHANGED <<jobs, limiter_state, documents_state, catalog_state,
                   metrics_state, health_state>>

\* process_ingestion_job, line 33: the sleep is over.  sleep(2) gives the earliest
\* resumption only; the task resumes whenever the event loop gets to it.
TaskWakes(j) ==
    /\ tasks[j] = "sleep"
    /\ tasks' = [tasks EXCEPT ![j] = "select"]
    /\ UNCHANGED <<jobs, ingestion_req, limiter_state, documents_state,
                   catalog_state, metrics_state, health_state>>

\* process_ingestion_job, lines 36-39: the job is looked up in a session of the
\* task's own
TaskSelect(j) ==
    /\ tasks[j] = "select"
    /\ tasks' = [tasks EXCEPT ![j] = IF j \in DOMAIN jobs THEN "commit" ELSE "done"]
    /\ UNCHANGED <<jobs, ingestion_req, limiter_state, documents_state,
                   catalog_state, metrics_state, health_state>>

\* Faulty variant of TaskCommit: the task records a failure
TaskCommit_Failed(j) ==
    /\ tasks[j] = "commit"
    /\ jobs' = [jobs EXCEPT ![j].status = "failed"]
    /\ tasks' = [tasks EXCEPT ![j] = "done"]
    /\ UNCHANGED <<ingestion_req, limiter_state, documents_state, catalog_state,
                   metrics_state, health_state>>

\* process_ingestion_job, lines 40-41: the status is written and committed
TaskCommit(j) ==
    /\ tasks[j] = "commit"
    /\ jobs' = [jobs EXCEPT ![j].status = "completed"]
    /\ tasks' = [tasks EXCEPT ![j] = "done"]
    /\ UNCHANGED <<ingestion_req, limiter_state, documents_state, catalog_state,
                   metrics_state, health_state>>

\* The steps of job j's task
TaskStep(j) == TaskWakes(j) \/ TaskSelect(j) \/ TaskCommit(j)

\* POST /ingestion/complete-stuck-jobs arrives; line 93: the cutoff is computed
StuckArrives(s) ==
    /\ ingestion_req[s].pc = "idle"
    /\ ingestion_req' = [ingestion_req EXCEPT ![s].pc = "stuck_select",
                                              ![s].cutoff_time = clock - Sec(StuckAfter)]
    /\ UNCHANGED <<jobs, tasks, limiter_state, documents_state, catalog_state,
                   metrics_state, health_state>>

\* complete_stuck_jobs, lines 95-104: the running jobs created before the cutoff
StuckSelect(s) ==
    /\ ingestion_req[s].pc = "stuck_select"
    /\ ingestion_req' = [ingestion_req EXCEPT
          ![s].pc = "stuck_commit",
          ![s].stuck_jobs = {j \in DOMAIN jobs :
                                /\ jobs[j].status = "running"
                                /\ jobs[j].created_at < ingestion_req[s].cutoff_time}]
    /\ UNCHANGED <<jobs, tasks, limiter_state, documents_state, catalog_state,
                   metrics_state, health_state>>

\* complete_stuck_jobs, lines 106-111: each of them is written and the session
\* commits
StuckCommit(s) ==
    /\ ingestion_req[s].pc = "stuck_commit"
    /\ jobs' = [j \in DOMAIN jobs |->
                   IF j \in ingestion_req[s].stuck_jobs
                   THEN [jobs[j] EXCEPT !.status = "completed"] ELSE jobs[j]]
    /\ ingestion_req' = [ingestion_req EXCEPT ![s].pc = "done", ![s].status = HTTP_200_OK]
    /\ UNCHANGED <<tasks, limiter_state, documents_state, catalog_state,
                   metrics_state, health_state>>

\* The response is sent
IngestionAnswered(s) ==
    /\ ingestion_req[s].pc = "done"
    /\ ingestion_req' = [ingestion_req EXCEPT ![s] = IdleIngestion]
    /\ UNCHANGED <<jobs, tasks, limiter_state, documents_state, catalog_state,
                   metrics_state, health_state>>

-----------------------------------------------------------------------------
(* The application *)

\* The application right after startup
AppStarted ==
    /\ DocumentsStarted /\ CatalogStarted /\ MetricsStarted /\ HealthStarted
    /\ IngestionStarted

-----------------------------------------------------------------------------
(* Initial states *)

\* Readings at construction and one tick later, and around the first sweep
EpochInstants ==
    {0, 1} \cup ((Sec(cleanup_interval) - 1)..(Sec(cleanup_interval) + 1))

\* The limiter after __init__ at clock reading 0
LimiterStarted(N, W, I, Q, P, O) ==
    /\ requests_per_minute = N
    /\ window_seconds = W
    /\ instants = I
    /\ quota = Q
    /\ paths = P
    /\ origins = O
    /\ clock = 0
    /\ last_cleanup = 0
    /\ client_requests = <<>>
    /\ req = [s \in Slots |-> IdleSlot]
    /\ hist = [c \in KeysOf(OriginsOf(O)) |-> <<>>]
    /\ sweeps = <<>>
    /\ solo = [c \in KeysOf(OriginsOf(O)) |->
                  [cr |-> <<>>, last_cleanup |-> 0, ok |-> <<>>]]
    /\ replicas = [r \in OtherReplicas |-> FreshReplica(OriginsOf(O))]

\* A limiter that no request reaches
LimiterIdle == LimiterStarted(1, 1, {0}, 0, {"/books"}, "direct")

\* The state after __init__ at clock reading 0, the application just started
InitFrom(N, W, I, Q, P, O) == LimiterStarted(N, W, I, Q, P, O) /\ AppStarted

InitWith(N, W, I, Q, P) == InitFrom(N, W, I, Q, P, "direct")

Init == \E N \in Limits : InitWith(N, 1, EpochInstants, MaxRequests, {"/books", "/health"})

-----------------------------------------------------------------------------
(* Actions *)

\* Time passes.  A clock reading is observed only by lines 250 and 223, so time
\* that passes during lines 256-296 is counted as passing right after them.
\* Between the two readings of one request at most MaxSkew ticks pass.
Tick(t) ==
    /\ \A s \in Slots : req[s].pc \in {"idle", "call_next", "cleanup"}
    /\ \A s \in Slots : req[s].pc = "cleanup" => t <= req[s].current_time + MaxSkew
    /\ t \in instants
    /\ t > clock
    /\ clock' = t
    /\ UNCHANGED <<requests_per_minute, window_seconds, client_requests,
                   last_cleanup, instants, quota, paths, origins, replicas, app_state, req, hist, sweeps, solo>>

\* dispatch, lines 246-250: the exempt test, the client key, the clock reading.
\* Slots are interchangeable: a new coroutine takes the lowest idle one.  The
\* headers of an exempt request are never read.
Begin(s, p) ==
    /\ LoopFree
    /\ req[s].pc = "idle"
    /\ \A r \in Slots : r < s => req[r].pc # "idle"
    /\ IF p \in ExemptPaths
       THEN req' = [req EXCEPT ![s] = [IdleSlot EXCEPT !.pc = "call_next", !.path = p,
                                                       !.calls = 1]]
       ELSE /\ TotalRequests + ReplicaRequests < quota
            /\ \E h \in OriginsOf(origins) :
                  req' = [req EXCEPT ![s] = [IdleSlot EXCEPT !.pc = "cleanup",
                                                            !.request = h,
                                                            !.client_ip = get_client_ip(h),
                                                            !.path = p,
                                                            !.limited = TRUE,
                                                            !.current_time = clock]]
    /\ UNCHANGED <<requests_per_minute, window_seconds, client_requests,
                   last_cleanup, clock, instants, quota, paths, origins, replicas, app_state,
                   hist, sweeps, solo>>

\* dispatch, line 253: _cleanup_old_entries (lines 221-242), with its own clock
\* reading.  A coroutine waiting in call_next keeps its reference to a deque that
\* the sweep deletes from the dict.
Cleanup(s) ==
    /\ req[s].pc = "cleanup"
    /\ LET c      == req[s].client_ip
           W      == window_seconds
           due    == SweepDue(clock, last_cleanup)
           after  == IF due THEN Swept(client_requests, clock, W) ELSE client_requests
           gone   == DOMAIN client_requests \ DOMAIN after
           sdue   == SweepDue(clock, solo[c].last_cleanup)
           safter == IF sdue THEN Swept(solo[c].cr, clock, W) ELSE solo[c].cr
           sgone  == DOMAIN solo[c].cr \ DOMAIN safter
       IN  /\ client_requests' = after
           /\ last_cleanup' = IF due THEN clock ELSE last_cleanup
           /\ sweeps' = IF due THEN Append(sweeps, clock) ELSE sweeps
           /\ solo' = [solo EXCEPT ![c].cr = safter,
                                   ![c].last_cleanup = IF sdue THEN clock ELSE @]
           /\ req' = [r \in Slots |->
                        IF r = s THEN [req[s] EXCEPT !.pc = "admit", !.swept = due]
                        ELSE IF req[r].pc = "call_next" /\ req[r].limited
                        THEN [req[r] EXCEPT
                                !.detached = @ \/ req[r].client_ip \in gone,
                                !.solo_detached = @ \/ req[r].client_ip \in sgone]
                        ELSE req[r]]
    /\ UNCHANGED <<requests_per_minute, window_seconds, clock, instants, quota,
                   paths, origins, replicas, app_state, hist>>

\* dispatch, lines 256-285: get or create the deque, purge, check, reject or append
Admit(s) ==
    /\ req[s].pc = "admit"
    /\ LET c   == req[s].client_ip
           now == req[s].current_time
           N   == requests_per_minute
           W   == window_seconds
           cr  == GetOrCreate(client_requests, c)
           q   == PopStale(cr[c], now - Sec(W))
           scr == GetOrCreate(solo[c].cr, c)
           sq  == PopStale(scr[c], now - Sec(W))
       IN  /\ client_requests' = [cr EXCEPT ![c] = Recorded(q, now, N)]
           /\ hist' = [hist EXCEPT ![c] =
                         Append(@, [t |-> now, ok |-> ~LimitExceeded(q, N)])]
           /\ solo' = [solo EXCEPT ![c].cr = [scr EXCEPT ![c] = Recorded(sq, now, N)],
                                   ![c].ok = Append(@, ~LimitExceeded(sq, N))]
           /\ IF Proceeds(q, N)
              THEN req' = [req EXCEPT ![s].pc = "call_next",
                                      ![s].calls = @ + 1,
                                      ![s].count = Len(q) + 1]
              ELSE req' = [req EXCEPT ![s].pc = "done",
                                      ![s].resp = RejectResponse(q, now, N, W)]
    /\ UNCHANGED <<requests_per_minute, window_seconds, last_cleanup, clock,
                   instants, quota, paths, origins, replicas, app_state, sweeps>>

\* call_next returns a response; lines 291-296 (line 247 on the exempt path)
HandlerReturn(s) ==
    /\ LoopFree
    /\ req[s].pc = "call_next"
    /\ LET c == req[s].client_ip
           N == requests_per_minute
       IN  req' = [req EXCEPT
                     ![s].pc = "done",
                     ![s].resp =
                        IF req[s].limited
                        THEN AdmitResponse(QueueLen(client_requests, c, req[s].detached),
                                           req[s].current_time, N, window_seconds)
                        ELSE PassResponse,
                     ![s].solo_remaining =
                        IF req[s].limited
                        THEN Max(0, N - QueueLen(solo[c].cr, c, req[s].solo_detached))
                        ELSE -1]
    /\ UNCHANGED <<requests_per_minute, window_seconds, client_requests,
                   last_cleanup, clock, instants, quota, paths, origins, replicas, app_state, hist, sweeps, solo>>

\* Faulty variant of HandlerRaise: the timestamp appended at line 285 is taken back
HandlerRaise_RollBack(s) ==
    /\ LoopFree
    /\ req[s].pc = "call_next"
    /\ req' = [req EXCEPT ![s].pc = "done", ![s].resp = ErrorResponse]
    /\ client_requests' =
          IF req[s].limited /\ req[s].client_ip \in DOMAIN client_requests
          THEN [client_requests EXCEPT ![req[s].client_ip] =
                   SelectSeq(@, LAMBDA x : x # req[s].current_time)]
          ELSE client_requests
    /\ UNCHANGED <<requests_per_minute, window_seconds,
                   last_cleanup, clock, instants, quota, paths, origins, replicas, app_state, hist, sweeps, solo>>

\* call_next raises: the exception leaves dispatch at line 288 (line 247)
HandlerRaise(s) ==
    /\ LoopFree
    /\ req[s].pc = "call_next"
    /\ req' = [req EXCEPT ![s].pc = "done", ![s].resp = ErrorResponse]
    /\ UNCHANGED <<requests_per_minute, window_seconds, client_requests,
                   last_cleanup, clock, instants, quota, paths, origins, replicas, app_state, hist, sweeps, solo>>

\* dispatch has returned (or raised): the coroutine ends
Finish(s) ==
    /\ req[s].pc = "done"
    /\ req' = [req EXCEPT ![s] = IdleSlot]
    /\ UNCHANGED <<requests_per_minute, window_seconds, client_requests,
                   last_cleanup, clock, instants, quota, paths, origins, replicas, app_state, hist, sweeps, solo>>

Next ==
    \/ \E t \in instants : Tick(t)
    \/ \E s \in Slots, p \in paths : Begin(s, p)
    \/ \E s \in Slots : Cleanup(s)
    \/ \E s \in Slots : Admit(s)
    \/ \E s \in Slots : HandlerReturn(s)
    \/ \E s \in Slots : HandlerRaise(s)
    \/ \E s \in Slots : Finish(s)

Spec == Init /\ [][Next]_vars

\* dispatch of a non-exempt request in another process, lines 249-285 in one
\* step: the clock was read as now at line 250 and is read again at line 223.
\* What the handler and the response do there is left out.
ReplicaDispatch(r, h, now) ==
    /\ TotalRequests + ReplicaRequests < quota
    /\ now \in instants
    /\ replicas[r].read <= now /\ now <= clock /\ clock <= now + MaxSkew
    /\ LET R     == replicas[r]
           c     == get_client_ip(h)
           N     == requests_per_minute
           W     == window_seconds
           due   == SweepDue(clock, R.last_cleanup)
           after == IF due THEN Swept(R.client_requests, clock, W)
                    ELSE R.client_requests
           cr    == GetOrCreate(after, c)
           q     == PopStale(cr[c], now - Sec(W))
       IN  replicas' = [replicas EXCEPT ![r] =
              [client_requests |-> [cr EXCEPT ![c] = Recorded(q, now, N)],
               last_cleanup    |-> IF due THEN clock ELSE R.last_cleanup,
               read            |-> clock,
               hist            |-> [R.hist EXCEPT ![c] =
                                      Append(@, [t |-> now, ok |-> Proceeds(q, N)])]]]
    /\ UNCHANGED <<requests_per_minute, window_seconds, client_requests,
                   last_cleanup, clock, instants, quota, paths, origins, req, hist,
                   sweeps, solo,
                   app_state>>

NextReplicas ==
    \/ Next
    \/ \E r \in OtherReplicas, h \in OriginsOf(origins), now \in instants :
          ReplicaDispatch(r, h, now)

-----------------------------------------------------------------------------
(* Further environments: other clock readings and configurations *)

\* Readings around the first sweep, two ticks before it to one tick after
SkewInstants ==
    {0} \cup ((Sec(cleanup_interval) - 2)..(Sec(cleanup_interval) + 1))

\* Whole-second readings at the given seconds
AtSeconds(S) == {Sec(x) : x \in S}

\* The recovery scenario: limit 3, window 60 s, calls at 0, 1, 2, 10 and 61 s
RecoveryTimes == <<0, 1, 2, 10, 61>>
InitRecovery == InitWith(3, 60, AtSeconds({0, 1, 2, 10, 61}), 5, {"/books", "/health"})

SpecRecovery == (Init \/ InitRecovery) /\ [][Next]_vars

\* The boundary scenario: limit 2, window 10 s, calls at 0, 1, 2 and 11 s
BoundaryTimes == <<0, 1, 2, 11>>
InitBoundary == InitWith(2, 10, AtSeconds({0, 1, 2, 11}), 4, {"/books", "/health"})

SpecBoundary == (Init \/ InitBoundary) /\ [][Next]_vars

\* Every exempt path is requested
InitExempt ==
    \E N \in Limits :
        InitWith(N, 1, EpochInstants, MaxRequests,
                 {"/books", "/health", "/health/detailed", "/metrics"})

SpecExempt == InitExempt /\ [][Next]_vars

\* Readings around the first and the second sweep
SweepInstants ==
    {0} \cup ((Sec(cleanup_interval) - 1)..(Sec(cleanup_interval) + 1))
        \cup ((2 * Sec(cleanup_interval) - 1)..(2 * Sec(cleanup_interval) + 1))

InitSweeps ==
    \E N \in Limits : InitWith(N, 1, SweepInstants, MaxRequests, {"/books", "/health"})

SpecSweeps == InitSweeps /\ [][Next]_vars

InitKey ==
    \E N \in Limits : InitFrom(N, 1, {0, 1}, 1, {"/books", "/health"}, "headers")

SpecKey == InitKey /\ [][Next]_vars

InitSkew == \E N \in Limits : InitWith(N, 1, SkewInstants, MaxRequests, {"/books", "/health"})

SpecSkew == InitSkew /\ [][Next]_vars

\* The service as several processes, each limiter with limit 1
InitReplicas == InitWith(1, 1, SkewInstants, MaxRequests, {"/books", "/health"})

SpecReplicas == InitReplicas /\ [][NextReplicas]_vars

\* The application just started, behind a limiter that no request reaches
InitApp == LimiterIdle /\ AppStarted

\* The documents routes in use
SpecDocuments == InitApp /\ [][NextDocuments]_vars

\* The author and book routes in use
SpecCatalog == InitApp /\ [][NextCatalog]_vars

\* The metrics middleware in use, from a new store and from one nearly full
InitMetrics ==
    /\ LimiterIdle /\ DocumentsStarted /\ CatalogStarted /\ HealthStarted
    /\ IngestionStarted
    /\ MetricsStarted \/ MetricsWarm

SpecMetrics == InitMetrics /\ [][NextMetrics]_vars

\* The health check called, with time passing
NextHealth ==
    \/ \E t \in instants : Tick(t)
    \/ \E s \in Slots : HealthCall(s)
    \/ \E s \in Slots : ProbeSucceeds(s)
    \/ \E s \in Slots : ProbeFails(s)
    \/ \E s \in Slots : HealthReturned(s)

\* Readings within one check_interval and right after it
HealthInstants == (0..2) \cup (Sec(check_interval)..(Sec(check_interval) + 2))

\* The health check in use
InitHealth ==
    LimiterStarted(1, 1, HealthInstants, 0, {"/books"}, "direct") /\ AppStarted

SpecHealth == InitHealth /\ [][NextHealth]_vars

\* The ingestion router in use, with documents uploaded and time passing
NextIngestion ==
    \/ \E t \in instants : Tick(t)
    \/ upload_document
    \/ \E s \in Slots, d \in DocumentIds : TriggerArrives(s, d)
    \/ \E s \in Slots : TriggerSelect(s)
    \/ \E s \in Slots : TriggerCommit(s)
    \/ \E s \in Slots : TriggerCreateTask(s)
    \/ \E j \in JobIds : TaskWakes(j)
    \/ \E j \in JobIds : TaskSelect(j)
    \/ \E j \in JobIds : TaskCommit(j)
    \/ \E s \in Slots : StuckArrives(s)
    \/ \E s \in Slots : StuckSelect(s)
    \/ \E s \in Slots : StuckCommit(s)
    \/ \E s \in Slots : IngestionAnswered(s)

\* Readings at the start, five minutes later and just past that
IngestionInstants == {0, Sec(StuckAfter), Sec(StuckAfter) + 1}

InitIngestion ==
    LimiterStarted(1, 1, IngestionInstants, 0, {"/books"}, "direct") /\ AppStarted

\* The event loop runs every task it has created until the task ends
SpecIngestion ==
    InitIngestion /\ [][NextIngestion]_vars /\ \A j \in JobIds : WF_vars(TaskStep(j))

-----------------------------------------------------------------------------
(* History operators used by the properties *)

\* The timestamps of client c's admitted requests that lie in (t - W, t]
AdmittedIn(c, t) ==
    {i \in DOMAIN hist[c] :
        /\ hist[c][i].ok
        /\ hist[c][i].t > t - Sec(window_seconds)
        /\ hist[c][i].t <= t}

\* Client c's requests were issued with strictly increasing timestamps
StrictlyIncreasing(c) ==
    \A i, j \in DOMAIN hist[c] : i < j => hist[c][i].t < hist[c][j].t

-----------------------------------------------------------------------------
(* C1 *)

\* C1: window bound.  For every client whose non-exempt requests carry strictly
\* increasing timestamps, and every time t, the number of admitted timestamps in
\* (t - window_seconds, t] is at most requests_per_minute, sweeps included.
C1_WindowBound ==
    \A c \in Clients :
        StrictlyIncreasing(c) =>
            \A t \in instants : Cardinality(AdmittedIn(c, t)) <= requests_per_minute

-----------------------------------------------------------------------------
(* C2 *)

\* Slot s takes the step of lines 256-285
AdmitStep(s) == req[s].pc = "admit" /\ req'[s].pc # "admit"

\* The number of client c's recorded timestamps that are not older than now - W
Remaining(c, now) ==
    IF c \in DOMAIN client_requests
    THEN Cardinality({i \in DOMAIN client_requests[c] :
                        ~(client_requests[c][i] < now - Sec(window_seconds))})
    ELSE 0

\* The step admitted slot s's request: it goes on to the handler
AdmittedStep(s) ==
    /\ req'[s].pc = "call_next"
    /\ hist'[req[s].client_ip] =
          Append(hist[req[s].client_ip], [t |-> req[s].current_time, ok |-> TRUE])

\* The step rejected slot s's request: it is answered 429
RejectedStep(s) ==
    /\ req'[s].pc = "done"
    /\ req'[s].resp.status = 429
    /\ hist'[req[s].client_ip] =
          Append(hist[req[s].client_ip], [t |-> req[s].current_time, ok |-> FALSE])

\* A client's first calls at 0, 1, 2, 10, 61 s with limit 3 and window 60 s:
\* all admitted but the fourth
RecoveryScenario ==
    (requests_per_minute = 3 /\ window_seconds = 60) =>
        \A c \in Clients : \A k \in DOMAIN hist[c] :
            (k <= Len(RecoveryTimes)
                /\ \A i \in 1..k : hist[c][i].t = Sec(RecoveryTimes[i]))
            => (hist[c][k].ok <=> k # 4)

-----------------------------------------------------------------------------
(* C3 *)

\* Client c's deque as the admit step finds it (empty when it creates it)
QueueOf(c) == IF c \in DOMAIN client_requests THEN client_requests[c] ELSE <<>>

NotOlder(q, cutoff) == SelectSeq(q, LAMBDA x : x >= cutoff)

\* The admit step of slot s keeps exactly the timestamps >= now - W, the one equal
\* to now - W included
BoundaryKept(s) ==
    LET c      == req[s].client_ip
        now    == req[s].current_time
        cutoff == now - Sec(window_seconds)
        kept   == NotOlder(QueueOf(c), cutoff)
        post   == client_requests'[c]
    IN  /\ post = kept \/ post = Append(kept, now)
        /\ (\E i \in DOMAIN QueueOf(c) : QueueOf(c)[i] = cutoff)
              => /\ \E j \in DOMAIN post : post[j] = cutoff
                 /\ Len(kept) >= requests_per_minute => RejectedStep(s)

\* A client's first calls at 0, 1, 2, 11 s with limit 2 and window 10 s, each
\* answered before the next is decided: admitted with 1 remaining, admitted with 0
\* remaining, rejected with Retry-After 10, admitted with 0 remaining
BoundaryScenario ==
    (requests_per_minute = 2 /\ window_seconds = 10) =>
        \A c \in Clients : \A k \in DOMAIN hist[c] :
            (k <= Len(BoundaryTimes)
                /\ \A i \in 1..k : hist[c][i].t = Sec(BoundaryTimes[i]))
            => /\ hist[c][k].ok <=> k # 3
               /\ \A s \in Slots :
                     (/\ req[s].pc = "done" /\ req[s].limited
                      /\ req[s].client_ip = c
                      /\ req[s].current_time = Sec(BoundaryTimes[k])
                      /\ Len(hist[c]) = k
                      /\ req[s].resp.status # 500)
                     => /\ k = 1 => req[s].resp.remaining = 1
                        /\ k \in {2, 4} => req[s].resp.remaining = 0
                        /\ k = 3 => /\ req[s].resp.status = 429
                                    /\ req[s].resp.retry_after = 10

-----------------------------------------------------------------------------
(* C4 *)

\* C4: a rejected request records nothing.  After the admit step rejects a request
\* of client c read at time now, c's sequence is what it was minus the timestamps
\* older than now - window_seconds, now has not been added, and every other
\* client's sequence and key is as before.
C4_RejectRecordsNothing ==
    [][\A s \in Slots :
          (AdmitStep(s) /\ req'[s].pc = "done") =>
              LET c    == req[s].client_ip
                  now  == req[s].current_time
                  kept == NotOlder(QueueOf(c), now - Sec(window_seconds))
              IN  /\ client_requests'[c] = kept
                  /\ Len(client_requests'[c]) <= Len(QueueOf(c))
                  /\ DOMAIN client_requests' = DOMAIN client_requests \cup {c}
                  /\ \A k \in DOMAIN client_requests' \ {c} :
                        client_requests'[k] = client_requests[k]]_vars

\* A request has just been rejected and its timestamp is not in the client's sequence
C4_Witness ==
    \E s \in Slots :
        /\ req[s].pc = "done" /\ req[s].limited /\ req[s].resp.status = 429
        /\ \A i \in DOMAIN client_requests[req[s].client_ip] :
              client_requests[req[s].client_ip][i] # req[s].current_time
        /\ \E k \in DOMAIN client_requests : k # req[s].client_ip

-----------------------------------------------------------------------------
(* C5 *)

\* Slot s holds the answer to a request that was not admitted
Rejection(s) == req[s].pc = "done" /\ req[s].limited /\ req[s].count = 0

\* C5: every rejection is answered 429 with Retry-After = window_seconds,
\* X-RateLimit-Limit = requests_per_minute, X-RateLimit-Remaining = 0 and
\* X-RateLimit-Reset = the whole seconds in now + window_seconds, now being the
\* time read for that request.
C5_RejectionResponse ==
    \A s \in Slots :
        Rejection(s) =>
            /\ req[s].resp.status = 429
            /\ req[s].resp.retry_after = window_seconds
            /\ req[s].resp.limit = requests_per_minute
            /\ req[s].resp.remaining = 0
            /\ Sec(req[s].resp.reset) <= req[s].current_time + Sec(window_seconds)
            /\ req[s].current_time + Sec(window_seconds) < Sec(req[s].resp.reset + 1)

\* A rejection of a request read at a time that is not a whole second
C5_Witness ==
    \E s \in Slots :
        /\ Rejection(s)
        /\ req[s].resp.status = 429
        /\ req[s].current_time % TicksPerSecond # 0

-----------------------------------------------------------------------------
(* C6 *)

\* C6: on admission the X-RateLimit-Remaining of the response equals
\* requests_per_minute - new_count, new_count being the length of the client's
\* sequence right after this request's timestamp was appended, whatever else ran
\* while the handler executed.
C6_RemainingAtAppend ==
    \A s \in Slots :
        (req[s].pc = "done" /\ req[s].limited /\ req[s].count > 0
            /\ req[s].resp.status = 200)
        => req[s].resp.remaining = requests_per_minute - req[s].count

-----------------------------------------------------------------------------
(* C7 *)

\* C7: independence across clients.  Every admit/reject decision taken for a
\* client, and every remaining budget reported to it, is what it would be had no
\* other client sent anything.
C7_ClientIndependence ==
    /\ \A c \in Clients : \A i \in DOMAIN hist[c] : hist[c][i].ok = solo[c].ok[i]
    /\ \A s \in Slots :
          (req[s].pc = "done" /\ req[s].limited /\ req[s].resp.status # 500)
          => req[s].resp.remaining = Max(0, req[s].solo_remaining)

-----------------------------------------------------------------------------
(* C8 *)

HealthAndMetrics == {"/health", "/health/detailed", "/metrics"}

\* C8: exempt paths bypass the limiter.  A request for /health, /health/detailed
\* or /metrics goes straight to the handler, is never answered 429, and no step
\* of it changes any client's sequence, the set of tracked keys or the last-sweep
\* time, whatever the clients' budgets are.
C8_ExemptBypass ==
    [][\A s \in Slots :
          /\ (req[s].pc = "idle" /\ req'[s].path \in HealthAndMetrics)
                => /\ req'[s].pc = "call_next"
                   /\ UNCHANGED <<client_requests, last_cleanup, hist, sweeps>>
          /\ (req[s].path \in HealthAndMetrics /\ req'[s] # req[s])
                => /\ req[s].pc = "call_next" => req'[s].pc = "done"
                   /\ UNCHANGED <<client_requests, last_cleanup, hist, sweeps>>
          /\ req'[s].path \in HealthAndMetrics
                => /\ req'[s].pc \in {"call_next", "done"}
                   /\ req'[s].resp.status # 429]_vars

\* An exempt request is answered by the handler while a client's budget is used up
C8_Witness ==
    \E s \in Slots :
        /\ req[s].path \in HealthAndMetrics
        /\ req[s].pc = "done" /\ req[s].resp.status = 200
        /\ \E c \in DOMAIN client_requests :
              Len(client_requests[c]) >= requests_per_minute

-----------------------------------------------------------------------------
(* C9 *)

\* Slot s is right after line 253 and the sweep scanned
JustSwept(s) == req[s].pc = "admit" /\ req[s].swept

\* C9: sweep postcondition.  Right after a sweep that scanned at time now, no
\* tracked client holds a timestamp older than now - window_seconds, no tracked
\* client has an empty sequence, and a client whose admitted timestamps have all
\* aged out is not tracked.
C9_SweepPostcondition ==
    \A s \in Slots :
        JustSwept(s) =>
            LET cutoff == sweeps[Len(sweeps)] - Sec(window_seconds)
            IN  /\ \A k \in DOMAIN client_requests :
                      /\ client_requests[k] # <<>>
                      /\ \A i \in DOMAIN client_requests[k] :
                            client_requests[k][i] >= cutoff
                /\ \A c \in Clients :
                      (\A i \in DOMAIN hist[c] : hist[c][i].ok => hist[c][i].t < cutoff)
                      => c \notin DOMAIN client_requests

\* A sweep has just removed one client and kept another
C9_Witness ==
    \E s \in Slots :
        /\ JustSwept(s)
        /\ \E c \in Clients : hist[c] # <<>> /\ c \notin DOMAIN client_requests
        /\ DOMAIN client_requests # {}

-----------------------------------------------------------------------------
(* C10 *)

\* C10: sweep throttling.  Two scans are at least _cleanup_interval apart, and the
\* first is at least _cleanup_interval after construction (clock reading 0).
C10_SweepThrottle ==
    \A i \in DOMAIN sweeps :
        sweeps[i] - (IF i = 1 THEN 0 ELSE sweeps[i - 1]) >= Sec(cleanup_interval)

\* Two scans have run, and a request in between found the sweep not yet due
C10_Witness ==
    /\ Len(sweeps) = 2
    /\ \E c \in Clients : \E i \in DOMAIN hist[c] :
          sweeps[1] < hist[c][i].t /\ hist[c][i].t < sweeps[2]

-----------------------------------------------------------------------------
(* C11 *)

\* Scheduling the event loop and the clock guarantee: time passes, a coroutine
\* that can run does run, and a handler returns or raises.  Nothing makes a client
\* send a request.
Fairness ==
    /\ WF_vars(\E t \in instants : Tick(t))
    /\ WF_vars(\E s \in Slots : Cleanup(s))
    /\ WF_vars(\E s \in Slots : Admit(s))
    /\ WF_vars(\E s \in Slots : HandlerReturn(s) \/ HandlerRaise(s))
    /\ WF_vars(\E s \in Slots : Finish(s))

SpecLive == InitSweeps /\ [][Next]_vars /\ Fairness

\* The reading of client c's latest request
LastSeen(c) == hist[c][Len(hist[c])].t

\* Client c's key is still tracked although its latest request is older than the
\* window plus a full sweep interval
Lingering(c) ==
    /\ c \in DOMAIN client_requests
    /\ clock > LastSeen(c) + Sec(window_seconds) + Sec(cleanup_interval)

\* C11: memory is bounded for departed clients.  If from some moment on a client
\* sends no request, then as time advances its key is eventually removed from
\* _client_requests.  The clock of the model stops at its last reading, so
\* "eventually" is read as: from some moment on the key is never found tracked
\* once the client's entries have aged out and a further sweep interval has passed.
C11_DepartedRemoved ==
    \A c \in Clients :
        (<>[][hist'[c] = hist[c]]_vars) => <>[](~Lingering(c))

-----------------------------------------------------------------------------
(* C12 *)

\* Slot r holds an admitted request of client c whose handler is running
InHandler(r, c) ==
    req[r].pc = "call_next" /\ req[r].limited /\ req[r].client_ip = c

\* The admitted requests of client c that a request read at time now counts:
\* those with a timestamp not older than now - window_seconds
Counted(c, now) ==
    {i \in DOMAIN hist[c] :
        hist[c][i].ok /\ hist[c][i].t >= now - Sec(window_seconds)}

\* C12: atomic check-then-append.  At most one request is between its clock
\* reading and its append (lines 249-285) at any time, and a request that is
\* decided while another admitted request of the same client is still being
\* handled is admitted only if fewer than requests_per_minute of the client's
\* admitted timestamps are counted: of two requests racing at
\* requests_per_minute - 1 counted timestamps, one is rejected.
C12_AtomicCheckThenAppend ==
    [][ /\ Cardinality({s \in Slots : req'[s].pc \in {"cleanup", "admit"}}) <= 1
        /\ \A s \in Slots :
              (/\ AdmitStep(s) /\ AdmittedStep(s)
               /\ \E r \in Slots \ {s} : InHandler(r, req[s].client_ip))
              => Cardinality(Counted(req[s].client_ip, req[s].current_time))
                    < requests_per_minute]_vars

-----------------------------------------------------------------------------
(* C13 *)

\* How many times t occurs in the sequence q
Occurrences(q, t) == Cardinality({i \in DOMAIN q : q[i] = t})

\* How many requests of client c read at time t were admitted
AdmittedAt(c, t) ==
    Cardinality({i \in DOMAIN hist[c] : hist[c][i].ok /\ hist[c][i].t = t})

\* Every admitted timestamp that has not aged out is in its client's tracked
\* sequence, once for each request admitted with it
NoLostUpdate ==
    \A c \in Clients : \A i \in DOMAIN hist[c] :
        (hist[c][i].ok /\ hist[c][i].t >= clock - Sec(window_seconds))
        => /\ c \in DOMAIN client_requests
           /\ Occurrences(client_requests[c], hist[c][i].t) = AdmittedAt(c, hist[c][i].t)

\* C13: no lost update.  The timestamps of admitted requests, racing or not, stay
\* in their client's tracked sequence until they age out, and the step that admits
\* a request appends its timestamp to the sequence that is in _client_requests
\* after that step, also when a sweep has just removed the client's key.
C13_NoLostUpdate ==
    [][ /\ NoLostUpdate'
        /\ \A s \in Slots :
              (AdmitStep(s) /\ AdmittedStep(s)) =>
                  LET c    == req[s].client_ip
                      now  == req[s].current_time
                      kept == NotOlder(QueueOf(c), now - Sec(window_seconds))
                  IN  /\ c \in DOMAIN client_requests'
                      /\ client_requests'[c] = Append(kept, now)]_vars

\* Two requests of one client are being handled, the later one ran the sweep, and
\* both timestamps are in the client's sequence
C13_Witness ==
    \E r, s \in Slots :
        /\ r # s
        /\ InHandler(r, req[s].client_ip) /\ InHandler(s, req[s].client_ip)
        /\ req[s].swept
        /\ client_requests[req[s].client_ip] = <<req[r].current_time, req[s].current_time>>

-----------------------------------------------------------------------------
(* C14 *)

\* C14: inspection invariant.  The sequence on which a request read at time now
\* is decided, and to which its timestamp is appended, holds only timestamps in
\* [now - window_seconds, now]: older ones are purged before the count is taken.
C14_InspectionInvariant ==
    [][\A s \in Slots :
          AdmitStep(s) =>
              LET c   == req[s].client_ip
                  now == req[s].current_time
                  q   == client_requests'[c]
                  n   == IF AdmittedStep(s) THEN Len(q) - 1 ELSE Len(q)
              IN  /\ \A i \in DOMAIN q :
                        now - Sec(window_seconds) <= q[i] /\ q[i] <= now
                  /\ AdmittedStep(s) <=> n < requests_per_minute]_vars

\* A request has been decided on a sequence from which two stale timestamps had to
\* be purged, without a sweep having run
C14_Witness ==
    /\ sweeps = <<>>
    /\ \E c \in Clients :
          /\ Len(hist[c]) = 3
          /\ hist[c][1].ok /\ hist[c][2].ok /\ hist[c][3].ok
          /\ hist[c][2].t < hist[c][3].t - Sec(window_seconds)
          /\ client_requests[c] = <<hist[c][3].t>>

-----------------------------------------------------------------------------
(* C15 *)

\* k is the first comma-separated entry of v without its leading and trailing
\* blanks: v is blanks, k, blanks, and then ends or goes on with a comma
IsFirstEntryTrimmed(k, v) ==
    \E e \in 0..Len(v) : \E a \in 1..(e + 1) : \E b \in (a - 1)..e :
        /\ e = Len(v) \/ v[e + 1] = Comma
        /\ \A j \in 1..e : v[j] # Comma
        /\ \A j \in (1..(a - 1)) \cup ((b + 1)..e) : v[j] = Blank
        /\ a <= b => (v[a] # Blank /\ v[b] # Blank)
        /\ k = SubSeq(v, a, b)

\* The header is there
Present(o) == o.present

\* The header is there and its value is not ""
NonEmpty(o) == o.present /\ Len(o.value) > 0

\* Key k follows the order X-Forwarded-For, X-Real-IP, peer address, "unknown",
\* There(_) telling which headers count
Precedence(h, k, There(_)) ==
    IF There(h.forwarded_for) THEN IsFirstEntryTrimmed(k, h.forwarded_for.value)
    ELSE IF There(h.real_ip) THEN k = h.real_ip.value
    ELSE IF h.client.present THEN k = h.client.value
    ELSE k = <<"unknown">>

\* C15 as stated: the client key is the first comma-separated entry, trimmed, of
\* X-Forwarded-For when that header is present; otherwise X-Real-IP when present;
\* otherwise the peer address when available; otherwise "unknown".
C15_KeyPrecedence ==
    \A s \in Slots :
        req[s].limited => Precedence(req[s].request, req[s].client_ip, Present)

\* C15 as amended: the same order, a header counting only when it is present and
\* its value is not empty.
C15_KeyPrecedenceNonEmpty ==
    \A s \in Slots :
        req[s].limited => Precedence(req[s].request, req[s].client_ip, NonEmpty)

\* A request with all three sources whose X-Forwarded-For has blanks around its
\* first entry and a further entry is accounted under the trimmed first entry
C15_Witness ==
    \E s \in Slots :
        /\ req[s].limited /\ req[s].pc = "call_next"
        /\ req[s].request.forwarded_for.value = <<Blank, "9.9.9.9", Comma>>
        /\ req[s].request.real_ip = Some(<<"5.6.7.8">>)
        /\ req[s].request.client.present
        /\ req[s].client_ip = <<"9.9.9.9">>
        /\ req[s].client_ip \in DOMAIN client_requests

-----------------------------------------------------------------------------
(* C16 *)

\* C16: whatever the headers and the peer address, the key under which a request
\* is accounted is never the empty string, and a request is refused only when the
\* sequence of its key is full, never for its identity.
C16_KeyNeverEmpty ==
    \A s \in Slots :
        req[s].limited =>
            /\ req[s].client_ip # <<>>
            /\ (req[s].pc = "done" /\ req[s].resp.status = 429)
                  => Len(client_requests[req[s].client_ip]) >= requests_per_minute

-----------------------------------------------------------------------------
(* C17 *)

\* C17: admission gates the handler.  call_next is invoked for a non-exempt
\* request only by the step that admits it and appends its timestamp, and once;
\* a rejected request is answered 429 by that step without call_next ever being
\* invoked for it.
C17_AdmissionGatesHandler ==
    [][\A s \in Slots :
          LET c   == req[s].client_ip
              now == req[s].current_time
          IN  /\ (req'[s].limited /\ req'[s].calls # req[s].calls)
                    => /\ AdmitStep(s) /\ AdmittedStep(s)
                       /\ req[s].calls = 0 /\ req'[s].calls = 1
                       /\ client_requests'[c] # <<>>
                       /\ client_requests'[c][Len(client_requests'[c])] = now
                       /\ Len(client_requests'[c]) = Len(NotOlder(QueueOf(c),
                                                        now - Sec(window_seconds))) + 1
              /\ (AdmitStep(s) /\ ~AdmittedStep(s))
                    => RejectedStep(s) /\ req'[s].calls = 0
              /\ (req'[s].limited /\ req'[s].pc = "call_next") => req'[s].calls = 1
              /\ (req'[s].limited /\ req'[s].pc = "done")
                    => req'[s].calls = (IF req'[s].resp.status = 429 THEN 0 ELSE 1)]_vars

\* One request of a client is with the handler while another request of the same
\* client has been answered 429 without the handler
C17_Witness ==
    \E r, s \in Slots :
        /\ InHandler(r, req[s].client_ip) /\ req[r].calls = 1
        /\ req[s].limited /\ req[s].pc = "done"
        /\ req[s].resp.status = 429 /\ req[s].calls = 0

-----------------------------------------------------------------------------
(* C18 *)

\* The keys of _client_requests
Tracked == DOMAIN client_requests

\* C18: key lifecycle.  A client's key is not tracked before the client's first
\* non-exempt request and is tracked from the step that decides it; a key leaves
\* _client_requests only in a sweep all of whose timestamps for it are stale; the
\* per-request purge removes no key, also when it evicts the client's last
\* timestamp.
C18_KeyLifecycle ==
    [][ /\ \A c \in DOMAIN hist :
              /\ hist'[c] = <<>> => c \notin Tracked'
              /\ (c \notin Tracked /\ c \in Tracked')
                    => \E s \in Slots : AdmitStep(s) /\ req[s].limited
                                           /\ req[s].client_ip = c
              /\ (c \in Tracked /\ c \notin Tracked')
                    => /\ \E s \in Slots : req[s].pc = "cleanup" /\ req'[s].swept
                       /\ \A i \in DOMAIN client_requests[c] :
                             client_requests[c][i] < clock - Sec(window_seconds)
        /\ \A s \in Slots :
              AdmitStep(s) => /\ Tracked \subseteq Tracked'
                              /\ req[s].client_ip \in Tracked']_vars

\* Without any sweep, a client's second request has evicted the client's only
\* timestamp, and the key is still tracked
C18_Witness ==
    /\ sweeps = <<>>
    /\ \E c \in DOMAIN hist :
          /\ Len(hist[c]) = 2 /\ hist[c][1].ok /\ hist[c][2].ok
          /\ hist[c][1].t < hist[c][2].t - Sec(window_seconds)
          /\ c \in Tracked
          /\ client_requests[c] = <<hist[c][2].t>>

-----------------------------------------------------------------------------
(* C19 *)

\* C19: ordered sequences.  With non-decreasing clock readings, every client's
\* sequence is non-decreasing from oldest to newest in every reachable state,
\* however the requests interleave.
C19_OrderedSequences ==
    \A k \in DOMAIN client_requests :
        \A i, j \in DOMAIN client_requests[k] :
            i < j => client_requests[k][i] <= client_requests[k][j]

\* Two requests of one client read at different times are with the handler at
\* once, and their timestamps are in the sequence in the order of the readings
C19_Witness ==
    \E r, s \in Slots :
        /\ InHandler(r, req[s].client_ip) /\ InHandler(s, req[s].client_ip)
        /\ req[r].current_time < req[s].current_time
        /\ client_requests[req[s].client_ip] = <<req[r].current_time, req[s].current_time>>

-----------------------------------------------------------------------------
(* C20 *)

\* The requests of client c admitted by the other process r with a timestamp in
\* (t - W, t]
ReplicaAdmittedIn(r, c, t) ==
    {i \in DOMAIN replicas[r].hist[c] :
        /\ replicas[r].hist[c][i].ok
        /\ replicas[r].hist[c][i].t > t - Sec(window_seconds)
        /\ replicas[r].hist[c][i].t <= t}

\* The admissions of client c in (t - W, t] over all processes
AdmittedEverywhere(c, t) ==
    LET RECURSIVE Sum(_)
        Sum(R) == IF R = {} THEN 0
                  ELSE LET r == CHOOSE x \in R : TRUE
                       IN  Cardinality(ReplicaAdmittedIn(r, c, t)) + Sum(R \ {r})
    IN  Cardinality(AdmittedIn(c, t)) + Sum(OtherReplicas)

\* C20: replica independence.  A step of one process changes the limiter of no
\* other process, and over all ReplicaCount processes a client has at most
\* requests_per_minute * ReplicaCount admissions within any window of length
\* window_seconds.
C20_ReplicaIndependence ==
    [][ /\ (client_requests' # client_requests \/ last_cleanup' # last_cleanup)
              => replicas' = replicas
        /\ \A r \in OtherReplicas :
              replicas'[r] # replicas[r]
              => /\ client_requests' = client_requests /\ last_cleanup' = last_cleanup
                 /\ \A o \in OtherReplicas \ {r} : replicas'[o] = replicas[o]
        /\ \A c \in DOMAIN hist : \A t \in instants :
              AdmittedEverywhere(c, t)' <= requests_per_minute * ReplicaCount]_vars

-----------------------------------------------------------------------------
(* C24 *)

\* C24: per-client memory bound.  In every reachable state each client's sequence
\* holds at most requests_per_minute timestamps, however many requests the client
\* sends and however they interleave.
C24_SequenceBound ==
    \A k \in DOMAIN client_requests :
        Len(client_requests[k]) <= requests_per_minute

\* A client has sent more requests than the limit, one of them while another was
\* with the handler, and its sequence is full
C24_Witness ==
    \E r, s \in Slots :
        /\ r # s
        /\ InHandler(r, req[s].client_ip)
        /\ req[s].limited /\ req[s].pc = "done" /\ req[s].resp.status = 429
        /\ Len(hist[req[s].client_ip]) > requests_per_minute
        /\ Len(client_requests[req[s].client_ip]) = requests_per_minute

-----------------------------------------------------------------------------
(* C25 *)

\* Slot s takes the step of line 253
CleanupStep(s) == req[s].pc = "cleanup" /\ req'[s].pc = "admit"

\* C25: consistent cutoff.  The sweep run for a request read at time now purges no
\* timestamp >= now - window_seconds, although it reads the clock again, and a
\* request for which the sweep scanned is admitted only if fewer than
\* requests_per_minute of its client's admitted timestamps are counted at now.
C25_ConsistentCutoff ==
    [][ /\ \A s \in Slots :
              CleanupStep(s) =>
                  \A k \in DOMAIN client_requests :
                      LET kept == NotOlder(client_requests[k],
                                           req[s].current_time - Sec(window_seconds))
                      IN  kept # <<>> =>
                              /\ k \in DOMAIN client_requests'
                              /\ NotOlder(client_requests'[k],
                                          req[s].current_time - Sec(window_seconds)) = kept
        /\ \A s \in Slots :
              (AdmitStep(s) /\ AdmittedStep(s) /\ req[s].swept)
              => Cardinality(Counted(req[s].client_ip, req[s].current_time))
                    < requests_per_minute]_vars

-----------------------------------------------------------------------------
(* C26 *)

\* Client c's i-th request was rejected at some time t, and its next request was
\* read at t + window_seconds
RetriedAfter(c, i) ==
    /\ i \in DOMAIN hist[c] /\ i + 1 \in DOMAIN hist[c]
    /\ ~hist[c][i].ok
    /\ hist[c][i + 1].t = hist[c][i].t + Sec(window_seconds)

\* None of client c's requests before the i-th was admitted with the reading of
\* the i-th
NoTie(c, i) ==
    \A k \in 1..(i - 1) : hist[c][k].ok => hist[c][k].t # hist[c][i].t

\* C26 as stated: a client rejected at time t that sends no other request until
\* t + window_seconds (the Retry-After it was given) is admitted at
\* t + window_seconds.
C26_RetryAfterSufficient ==
    \A c \in DOMAIN hist : \A i \in DOMAIN hist[c] :
        RetriedAfter(c, i) => hist[c][i + 1].ok

\* C26 as amended: the same, for a rejection at a time t at which no request of
\* the client was admitted.
C26_RetryAfterSufficientNoTie ==
    \A c \in DOMAIN hist : \A i \in DOMAIN hist[c] :
        (RetriedAfter(c, i) /\ NoTie(c, i)) => hist[c][i + 1].ok

\* A client was admitted, then rejected at a later reading t, and admitted again
\* at t + window_seconds
C26_Witness ==
    \E c \in DOMAIN hist :
        /\ Len(hist[c]) = 3
        /\ hist[c][1].ok /\ hist[c][1].t < hist[c][2].t
        /\ RetriedAfter(c, 2) /\ NoTie(c, 2)
        /\ hist[c][3].ok

-----------------------------------------------------------------------------
(* C27 *)

\* C27: no empty sequences at rest.  With requests_per_minute >= 1, whenever no
\* request is inside its purge-check-append step (lines 256-285) and no sweep is
\* running, every tracked key has a non-empty sequence.  Both are single steps of
\* the event loop, so this is every state.
C27_NoEmptyAtRest ==
    requests_per_minute >= 1 =>
        \A k \in DOMAIN client_requests : client_requests[k] # <<>>

\* A sweep has scanned and deleted one client's key, and since then a request of
\* another client has purged that client's only timestamp and recorded its own
C27_Witness ==
    /\ LoopFree
    /\ Len(sweeps) = 1
    /\ \E c, d \in DOMAIN hist :
          /\ c # d
          /\ hist[d] # <<>> /\ d \notin DOMAIN client_requests
          /\ Len(hist[c]) = 2 /\ hist[c][1].ok /\ hist[c][2].ok
          /\ sweeps[1] <= hist[c][1].t
          /\ hist[c][1].t < hist[c][2].t - Sec(window_seconds)
          /\ client_requests[c] = <<hist[c][2].t>>

-----------------------------------------------------------------------------
(* C28 *)

\* Slot s's handler raises in this step
RaiseStep(s) ==
    req[s].pc = "call_next" /\ req'[s].pc = "done" /\ req'[s].resp.status = 500

\* Slot s holds an admitted request whose handler raised
Failed(s) ==
    req[s].pc = "done" /\ req[s].limited /\ req[s].resp.status = 500

\* C28: budget is consumed at admission.  The step in which the handler of an
\* admitted request raises changes no client's sequence, and the timestamp of a
\* request whose handler raised is in its client's sequence as long as it has not
\* aged out.
C28_NoRollback ==
    [][ /\ \A s \in Slots :
              RaiseStep(s) => client_requests' = client_requests
        /\ \A s \in Slots :
              (Failed(s)' /\ req'[s].current_time >= clock' - Sec(window_seconds))
              => /\ req'[s].client_ip \in DOMAIN client_requests'
                 /\ \E i \in DOMAIN client_requests'[req'[s].client_ip] :
                       client_requests'[req'[s].client_ip][i] = req'[s].current_time]_vars

\* The handler of an admitted request has raised after a later request of the same
\* client was rejected, and the timestamp is still in the client's sequence
C28_Witness ==
    \E s \in Slots :
        /\ Failed(s)
        /\ Len(hist[req[s].client_ip]) = 2
        /\ hist[req[s].client_ip][1] = [t |-> req[s].current_time, ok |-> TRUE]
        /\ ~hist[req[s].client_ip][2].ok
        /\ client_requests[req[s].client_ip] = <<req[s].current_time>>

-----------------------------------------------------------------------------
(* C21 *)

\* Slot s holds a call of delete_document that came without any credentials
Unauthenticated(s) ==
    delete_req[s].pc # "idle" /\ ~delete_req[s].authorization.present

\* C21: delete document without credentials.  A call of the delete operation that
\* carries no credentials is answered 401, never 500, and no step of it changes
\* the documents table: the deletion is not performed.
C21_UnauthenticatedDelete ==
    [][\A s \in Slots :
          (Unauthenticated(s) /\ delete_req'[s] # delete_req[s])
          => /\ documents' = documents
             /\ delete_req'[s].pc \in {"done", "idle"}
             /\ delete_req'[s].pc = "done"
                   => /\ delete_req'[s].status = HTTP_401_UNAUTHORIZED
                      /\ delete_req'[s].status # HTTP_500_INTERNAL_SERVER_ERROR]_vars

\* Without credentials the documents table is never changed and the handler never
\* entered
C21_StoreUntouched ==
    [][\A s \in Slots :
          (Unauthenticated(s) /\ delete_req'[s] # delete_req[s])
          => /\ documents' = documents
             /\ delete_req'[s].pc \in {"done", "idle"}]_vars

-----------------------------------------------------------------------------
(* C22 *)

\* Every book's author_id is the id of a row of the authors table
ReferentialIntegrity == \A b \in DOMAIN books : books[b] \in authors

\* Slot s's call of delete_author ends in this step
DeleteAuthorEnds(s) ==
    /\ catalog_req[s].op = "delete_author"
    /\ catalog_req[s].pc # "done" /\ catalog_req'[s].pc = "done"

\* C22: an author with books cannot be deleted.  In every interleaving of add_book
\* and delete_author calls every book's author_id refers to an existing author, a
\* call of delete_author for an author that has books fails with a conflict (409),
\* and a call that deletes the author commits when the author has no books.
C22_AuthorWithBooksKept ==
    [][ /\ ReferentialIntegrity'
        /\ \A s \in Slots :
              DeleteAuthorEnds(s) =>
                  LET a == catalog_req[s].author_id
                  IN  /\ (a \in authors /\ BooksOf(a) # {})
                            => catalog_req'[s].status = HTTP_409_CONFLICT
                      /\ a \in authors \ authors'
                            => /\ BooksOf(a) = {}
                               /\ catalog_req'[s].status = HTTP_204_NO_CONTENT]_vars

\* What holds of it: referential integrity in every interleaving, and an author
\* leaves the table only in the commit of a delete_author call, having no books
C22_IntegrityKept ==
    [][ /\ ReferentialIntegrity'
        /\ \A a \in authors \ authors' :
              /\ BooksOf(a) = {}
              /\ \E s \in Slots : /\ DeleteAuthorEnds(s)
                                  /\ catalog_req[s].author_id = a
                                  /\ catalog_req'[s].status = HTTP_204_NO_CONTENT
        /\ \A s \in Slots :
              (DeleteAuthorEnds(s) /\ catalog_req[s].author_id \in authors
                  /\ BooksOf(catalog_req[s].author_id) # {})
              => catalog_req'[s].status \in {HTTP_409_CONFLICT,
                                             HTTP_500_INTERNAL_SERVER_ERROR}]_vars

-----------------------------------------------------------------------------
(* C23 *)

\* C23: the metrics store under concurrent requests.  In every interleaving
\* _request_count is the number of calls of MetricsMiddleware.dispatch,
\* _error_count the number of them whose call_next raised, _error_count is at
\* most _request_count, and at most 1000 response times are retained.
C23_MetricsSafe ==
    /\ request_count = entered
    /\ error_count = raised
    /\ error_count <= request_count
    /\ Len(response_times) <= 1000

\* The store is full and has dropped a response time, after two requests were with
\* the handler at once and one has raised
C23_Witness ==
    /\ Len(response_times) = 1000
    /\ request_count - error_count > 1000
    /\ error_count >= 1
    /\ response_times[1000] = 1
    /\ \A s \in Slots : metrics_req[s].pc = "idle"

-----------------------------------------------------------------------------
(* C29 *)

\* Slot s's call of check_health begins in this step
HealthCallStep(s) == health_req[s].pc = "idle" /\ health_req'[s].pc # "idle"

\* C29: health caching never caches a failure.  A call made less than
\* check_interval after the reading of a successful probe returns healthy without
\* probing, and a call made when the latest probe has failed probes afresh instead
\* of returning the unhealthy value, also when calls overlap.
C29_NoCachedFailure ==
    [][\A s \in Slots :
          HealthCallStep(s) =>
              /\ clock - last_check < Sec(30)
                    => ~health_req'[s].probed /\ health_req'[s].result = TRUE
              /\ ~is_healthy => health_req'[s].probed]_vars

-----------------------------------------------------------------------------
(* C30 *)

\* Job j's status at the start and at the end of a step
StatusStep(j, before, after) == jobs[j].status = before /\ jobs'[j].status = after

\* The steps change the table of jobs only by adding a job that is "running" or
\* by completing jobs that are "running"
JobsMonotonic ==
    /\ Len(jobs') >= Len(jobs)
    /\ \A j \in DOMAIN jobs' \ DOMAIN jobs : jobs'[j].status = "running"
    /\ \A j \in DOMAIN jobs :
          \/ jobs'[j].status = jobs[j].status
          \/ StatusStep(j, "running", "completed")

====
